---- MODULE Spec2Model ----
(***************************************************************************)
(* Model of the stone-prover helper scripts:                               *)
(*   config-generator.py       (CLI A, Policy A step list, stdin -> stdout) *)
(*   fri_step_list.py          (CLI B, Policy B step list, file -> file)    *)
(*   scripts/cairo0/merge.py   (CLI C, merge of two JSON files)             *)
(***************************************************************************)
EXTENDS Integers, Sequences, FiniteSets, TLC

VARIABLES
  pc,                  \* control position of the running script
  stdout,              \* sequence of items printed to standard output
  exit_status,         \* process exit status, -1 while running
  raised,              \* name of the uncaught exception, "none" if none
  n_steps,             \* calculator input / local n_steps
  degree_bound,        \* calculator input degree_bound
  resA,                \* outcome of calculate_fri_step_list
  resB,                \* outcome of the fri_step_list.py computation
  stdin,               \* CLI A: content of standard input
  template,            \* CLI A: the module-level TEMPLATE object
  locals,              \* CLI A / CLI B: local variables of the script
  argv_len,            \* CLI B: len(sys.argv)
  public_input,        \* CLI B: file at sys.argv[1]
  reference,           \* CLI B: e2e_test/Cairo/cpu_air_params.json
  dest,                \* CLI B: file at sys.argv[2]
  dest_writable,       \* CLI B: whether sys.argv[2] can be opened for writing
  program_file,        \* CLI C: file at args.program_file
  program_input_file   \* CLI C: file at args.program_input_file

vars == <<pc, stdout, exit_status, raised, n_steps, degree_bound, resA, resB,
          stdin, template, locals, argv_len, public_input, reference, dest,
          dest_writable, program_file, program_input_file>>

(***************************************************************************)
(* Bounds of the input domains.                                            *)
(***************************************************************************)
\* n_steps and degree_bound range over -MaxNeg .. MaxSmall / MaxBound,
\* n_steps additionally over the powers of two 2^0 .. 2^MaxExp.
MaxNeg == 3
MaxSmall == 40
MaxBound == 9
MaxExp == 29

(***************************************************************************)
(* Integer helpers.                                                        *)
(***************************************************************************)
RECURSIVE Pow2(_)
Pow2(k) == IF k = 0 THEN 1 ELSE 2 * Pow2(k - 1)

RECURSIVE FloorLog2(_)
\* floor(log2(x)) for x >= 1, by repeated halving
FloorLog2(x) == IF x < 2 THEN 0 ELSE 1 + FloorLog2(x \div 2)

IsPow2(x) == x >= 1 /\ Pow2(FloorLog2(x)) = x

Abs(x) == IF x < 0 THEN 0 - x ELSE x

RECURSIVE GCD(_, _)
GCD(a, b) == IF b = 0 THEN a ELSE GCD(b, a % b)

RECURSIVE Repeat(_, _)
\* Python's [v] * k and [v for _ in range(k)]: empty when k <= 0
Repeat(v, k) == IF k <= 0 THEN <<>> ELSE <<v>> \o Repeat(v, k - 1)

RECURSIVE Sum(_)
Sum(s) == IF s = <<>> THEN 0 ELSE Head(s) + Sum(Tail(s))

(***************************************************************************)
(* math.log(x, 2) on doubles.                                              *)
(***************************************************************************)
\* Exponents k (within the model's integer range) for which CPython's
\* math.log(2**k, 2) = log(2**k)/log(2) is a double strictly above k
\* (math.log(2**29, 2) = 29.000000000000004); for every other k it is exactly k.
InexactAbove == {29}

\* math.ceil(math.log(x, 2)) for an integer x >= 1
ceil_log2(x) ==
  IF IsPow2(x)
    THEN FloorLog2(x) + (IF FloorLog2(x) \in InexactAbove THEN 1 ELSE 0)
    ELSE FloorLog2(x) + 1

\* round(log2(n / d)) for integers n >= d >= 1: with e = floor(log2(n/d)) the
\* quotient n / (d * 2^e) lies in [1, 2) and the result is e + 1 exactly when
\* that quotient exceeds sqrt(2).  A double error of a few ulps (as for 2^29)
\* never crosses a half-integer, so round() absorbs it.
RoundLog2Up(n, d) ==
  LET e  == FloorLog2(n \div d)
      m  == d * Pow2(e)
      g  == GCD(n, m)
      nn == n \div g
      mm == m \div g
  IN  IF nn * nn > 2 * mm * mm THEN e + 1 ELSE e

\* round(math.log(n / b, 2)) for n / b > 0 (n and b of the same sign)
round_log2_ratio(n, b) ==
  LET x == Abs(n)
      y == Abs(b)
  IN  IF x >= y THEN RoundLog2Up(x, y) ELSE 0 - RoundLog2Up(y, x)

(***************************************************************************)
(* Policy A: config-generator.py, calculate_fri_step_list.                 *)
(***************************************************************************)
Returned(list) == [raised |-> "none", value |-> list]
Raised(exc) == [raised |-> exc, value |-> <<>>]

\* mutant: the constant offset + 4 of the depth is left out
calculate_fri_step_list_without_offset(n, b) ==
  IF b = 0 THEN Raised("ZeroDivisionError")
  ELSE IF n = 0 \/ (n < 0) # (b < 0)
    THEN Raised("ValueError")
  ELSE LET fri_degree == round_log2_ratio(n, b)
       IN  Returned(<<0>> \o Repeat(4, fri_degree \div 4) \o <<fri_degree % 4>>)

\* mutant: the remainder is appended only when it is positive, as in Policy B
calculate_fri_step_list_positive_remainder(n, b) ==
  IF b = 0 THEN Raised("ZeroDivisionError")
  ELSE IF n = 0 \/ (n < 0) # (b < 0)
    THEN Raised("ValueError")
  ELSE LET fri_degree == round_log2_ratio(n, b) + 4
       IN  Returned(<<0>> \o Repeat(4, fri_degree \div 4)
                      \o (IF fri_degree % 4 > 0 THEN <<fri_degree % 4>> ELSE <<>>))

calculate_fri_step_list(n, b) ==
  IF b = 0 THEN Raised("ZeroDivisionError")          \* n_steps / degree_bound
  ELSE IF n = 0 \/ (n < 0) # (b < 0)
    THEN Raised("ValueError")                         \* math domain error
  ELSE LET fri_degree == round_log2_ratio(n, b) + 4
       IN  Returned(<<0>> \o Repeat(4, fri_degree \div 4) \o <<fri_degree % 4>>)

(***************************************************************************)
(* Policy B: fri_step_list.py, lines 17-27.                                *)
(***************************************************************************)
last_layer_degree_bound == 128

last_layer_degree_bound_log == ceil_log2(last_layer_degree_bound)

sigma_fri_step_list(program_n_steps) ==
  ceil_log2(program_n_steps) + 4 - last_layer_degree_bound_log

fri_step_list(program_n_steps) ==
  IF program_n_steps <= 0 THEN Raised("ValueError")   \* math domain error
  ELSE LET q == sigma_fri_step_list(program_n_steps) \div 4
           r == sigma_fri_step_list(program_n_steps) % 4
       IN  Returned(Repeat(4, q) \o (IF r > 0 THEN <<r>> ELSE <<>>))

(***************************************************************************)
(* Values of variables a script does not use.                              *)
(***************************************************************************)
NotRun == [raised |-> "unset", value |-> <<>>]
NoLocals == [unset |-> TRUE]
NoFile == [state |-> "unused"]
NoInput == [json |-> "unused"]

\* the module-level TEMPLATE of config-generator.py
TEMPLATE ==
  [ field |-> "PrimeField0",
    channel_hash |-> "poseidon3",
    commitment_hash |-> "blake256_masked160_lsb",
    n_verifier_friendly_commitment_layers |-> 9999,
    pow_hash |-> "keccak256",
    statement |-> [page_hash |-> "pedersen"],
    stark |->
      [ fri |->
          [ fri_step_list |-> <<0, 4, 4, 4>>,
            last_layer_degree_bound |-> 128,
            n_queries |-> 16,
            proof_of_work_bits |-> 30 ],
        log_n_cosets |-> 3 ],
    use_extension_field |-> FALSE,
    verifier_friendly_channel_updates |-> TRUE,
    verifier_friendly_commitment_hash |-> "poseidon3" ]

CalcUnused ==
  /\ n_steps = 0 /\ degree_bound = 0 /\ resA = NotRun /\ resB = NotRun
CliAUnused ==
  /\ stdin = NoInput /\ template = TEMPLATE
CliBUnused ==
  /\ public_input = NoFile /\ reference = NoFile /\ dest = NoFile
  /\ dest_writable = FALSE
CliCUnused ==
  /\ program_file = NoFile /\ program_input_file = NoFile
ProcessStart ==
  /\ stdout = <<>> /\ exit_status = -1 /\ raised = "none"

(***************************************************************************)
(* The step-list calculators applied to bounded inputs.                    *)
(***************************************************************************)
NStepsDomain == (-MaxNeg .. MaxSmall) \cup {Pow2(k) : k \in 0 .. MaxExp}
BoundDomain == (-MaxNeg .. MaxBound) \cup {last_layer_degree_bound}

InitCalc ==
  /\ pc = "policy_a"
  /\ n_steps \in NStepsDomain
  /\ degree_bound \in BoundDomain
  /\ resA = NotRun /\ resB = NotRun
  /\ ProcessStart /\ CliAUnused /\ CliBUnused /\ CliCUnused
  /\ locals = NoLocals /\ argv_len = 0

\* config-generator.py: calculate_fri_step_list(n_steps, degree_bound)
CalcPolicyA ==
  /\ pc = "policy_a"
  /\ resA' = calculate_fri_step_list(n_steps, degree_bound)
  /\ pc' = "policy_b"
  /\ UNCHANGED <<stdout, exit_status, raised, n_steps, degree_bound, resB,
                 stdin, template, locals, argv_len, public_input, reference,
                 dest, dest_writable, program_file, program_input_file>>

\* fri_step_list.py lines 17-27 on program_n_steps = n_steps
CalcPolicyB ==
  /\ pc = "policy_b"
  /\ resB' = fri_step_list(n_steps)
  /\ pc' = "calc_done"
  /\ UNCHANGED <<stdout, exit_status, raised, n_steps, degree_bound, resA,
                 stdin, template, locals, argv_len, public_input, reference,
                 dest, dest_writable, program_file, program_input_file>>

NextCalc == CalcPolicyA \/ CalcPolicyB

SpecCalc == InitCalc /\ [][NextCalc]_vars

(***************************************************************************)
(* Properties of the step-list calculators (checked under SpecCalc).       *)
(***************************************************************************)
\* ceil(log2(x)) over the integers, x >= 1
ExactCeilLog2(x) == IF IsPow2(x) THEN FloorLog2(x) ELSE FloorLog2(x) + 1

\* the depth the specification names
RefDepth(n, b) == ExactCeilLog2(n) - ExactCeilLog2(b) + 4

NonNegative(list) == \A i \in 1 .. Len(list) : list[i] >= 0
Within1(x, y) == x - y \in -1 .. 1
CalcDone == pc = "calc_done"
PositiveInputs == n_steps > 0 /\ degree_bound > 0

\* Policy A depth round(log2(n/b)) + 4 >= 0, i.e. n/b > 2^(-4.5)
DepthANonNegative(n, b) == n >= b \/ 512 * n * n > b * b
\* Policy B depth ceil(log2(n)) + 4 - 7 >= 0
DepthBNonNegative(n) == n >= 5

\* C1 (as stated): for all positive n_steps and last_layer_degree_bound both
\* computations return non-negative integers whose sum is within 1 of
\* ceil(log2(n_steps)) - ceil(log2(bound)) + 4, also when that depth is negative.
C1_AsStated ==
  (CalcDone /\ PositiveInputs) =>
    /\ resA.raised = "none" /\ NonNegative(resA.value)
    /\ Within1(Sum(resA.value), RefDepth(n_steps, degree_bound))
    /\ resB.raised = "none" /\ NonNegative(resB.value)
    /\ Within1(Sum(resB.value), RefDepth(n_steps, last_layer_degree_bound))

\* C1 (amended): for all positive inputs both computations return a list of
\* non-negative integers; when the policy's own depth is non-negative the sum of
\* the list is within 1 of ceil(log2(n_steps)) - ceil(log2(bound)) + 4.
C1_SumWithinOneOfDepth ==
  (CalcDone /\ PositiveInputs) =>
    /\ resA.raised = "none" /\ NonNegative(resA.value)
    /\ DepthANonNegative(n_steps, degree_bound) =>
         Within1(Sum(resA.value), RefDepth(n_steps, degree_bound))
    /\ resB.raised = "none" /\ NonNegative(resB.value)
    /\ DepthBNonNegative(n_steps) =>
         Within1(Sum(resB.value), RefDepth(n_steps, last_layer_degree_bound))

\* a run where rounding makes Policy A's sum (4) differ from the depth (5)
C1_Witness ==
  /\ CalcDone /\ n_steps = 9 /\ degree_bound = 8
  /\ Sum(resA.value) = 4 /\ RefDepth(n_steps, degree_bound) = 5
  /\ resB.value = <<1>>

\* m = round(log2(n/b)) stated by squares: 2^(2m-1) < (n/b)^2 < 2^(2m+1)
IsRoundLog2(n, b, m) ==
  IF m >= 0
    THEN /\ b * b * Pow2(2 * m) < 2 * n * n
         /\ n * n < 2 * b * b * Pow2(2 * m)
    ELSE /\ b * b < 2 * n * n * Pow2(0 - 2 * m)
         /\ n * n * Pow2(0 - 2 * m) < 2 * b * b

SmallInputs == Abs(n_steps) <= MaxSmall /\ Abs(degree_bound) <= last_layer_degree_bound

\* C2: whenever calculate_fri_step_list returns, the list is [0], then
\* depth // 4 fours, then the single element depth % 4 (present also when it is
\* 0), with depth = round(log2(n_steps / degree_bound)) + 4.
C2_PolicyAShape ==
  (CalcDone /\ resA.raised = "none") =>
    LET depth == round_log2_ratio(n_steps, degree_bound) + 4
        list  == resA.value
        fours == IF depth \div 4 > 0 THEN depth \div 4 ELSE 0
    IN  /\ Len(list) = fours + 2
        /\ list[1] = 0
        /\ \A i \in 2 .. (fours + 1) : list[i] = 4
        /\ list[Len(list)] = depth % 4
        /\ SmallInputs => IsRoundLog2(n_steps, degree_bound, depth - 4)
        /\ n_steps = degree_bound => list = <<0, 4, 0>>
        /\ (n_steps = 1024 /\ degree_bound = 128) => list = <<0, 4, 3>>

\* the trailing zero: n_steps = degree_bound
C2_Witness ==
  /\ CalcDone /\ n_steps = last_layer_degree_bound
  /\ degree_bound = last_layer_degree_bound
  /\ resA = Returned(<<0, 4, 0>>)

PolicyBList(depth) ==
  Repeat(4, depth \div 4) \o (IF depth % 4 > 0 THEN <<depth % 4>> ELSE <<>>)

\* C3 (as stated): for every positive n_steps the fri_step_list.py list is
\* depth // 4 fours followed by depth % 4 only when that is positive, with
\* depth = ceil(log2(n_steps)) + 4 - ceil(log2(128)), and contains no 0.
C3_AsStated ==
  (CalcDone /\ n_steps > 0) =>
    /\ resB.raised = "none"
    /\ resB.value = PolicyBList(RefDepth(n_steps, last_layer_degree_bound))
    /\ \A i \in 1 .. Len(resB.value) : resB.value[i] # 0

\* C4 (as stated): the computation raises, and returns no list, whenever
\* n_steps <= 0 or last_layer_degree_bound <= 0.
C4_AsStated ==
  CalcDone =>
    /\ (n_steps <= 0 \/ degree_bound <= 0) => resA.raised # "none"
    /\ n_steps <= 0 => resB.raised # "none"

\* C10 (as stated): for n_steps a power of two and bound 128 the Policy A list
\* is [0], then the Policy B list, then a trailing 0 exactly when depth % 4 = 0.
C10_AsStated ==
  (CalcDone /\ IsPow2(n_steps) /\ degree_bound = last_layer_degree_bound) =>
    LET depth == RefDepth(n_steps, last_layer_degree_bound)
    IN  /\ resA.value =
             <<0>> \o resB.value \o (IF depth % 4 = 0 THEN <<0>> ELSE <<>>)
        /\ Sum(resA.value) = Sum(resB.value)

(***************************************************************************)
(* CLI A: config-generator.py.                                             *)
(***************************************************************************)
\* JSON values met under the key "n_steps".  A float is k + 0.5 and carries
\* its integer part k; a numeric string carries the integer it spells.
JsonValue(t, i) == [t |-> t, i |-> i]
NStepsValues ==
  {JsonValue("int", k) : k \in NStepsDomain}
    \cup {JsonValue("float", k) : k \in 0 .. 2}
    \cup {JsonValue("bool", k) : k \in 0 .. 1}
    \cup {JsonValue("numstr", k) : k \in {-1, 0, 1024}}
    \cup {JsonValue("str", 0), JsonValue("null", 0), JsonValue("array", 0)}

Document(kind, has, v) == [json |-> kind, has_n_steps |-> has, n_steps |-> v]
StdinContents ==
  {Document(k, FALSE, JsonValue("null", 0)) :
     k \in {"invalid", "array", "number", "object"}}
    \cup {Document("object", TRUE, v) : v \in NStepsValues}

\* Python's int(v)
py_int(v) ==
  IF v.t \in {"int", "float", "bool", "numstr"} THEN Returned(v.i)
  ELSE IF v.t = "str" THEN Raised("ValueError")
  ELSE Raised("TypeError")

\* program_public_input["n_steps"]
subscript_n_steps(doc) ==
  IF doc.json # "object" THEN Raised("TypeError")
  ELSE IF ~doc.has_n_steps THEN Raised("KeyError")
  ELSE Returned(doc.n_steps)

\* mutant: the whole "fri" mapping is replaced, not only its fri_step_list
update_template_replacing_fri(t, list) ==
  [t EXCEPT !.stark.fri = [fri_step_list |-> list]]

\* template["stark"]["fri"]["fri_step_list"] = fri_step_list
update_template(t, list) == [t EXCEPT !.stark.fri.fri_step_list = list]

Text(line) == [kind |-> "text", text |-> line]
Json(doc) == [kind |-> "json", doc |-> doc]

LocalsA ==
  [ program_public_input |-> NoInput, n_steps |-> 0,
    last_layer_degree_bound |-> 0, fri_step_list |-> <<>> ]

InitConfigGenerator ==
  /\ pc = "read_json_from_stdin"
  /\ stdin \in StdinContents
  /\ template = TEMPLATE
  /\ locals = LocalsA
  /\ ProcessStart /\ CalcUnused /\ CliBUnused /\ CliCUnused
  /\ argv_len = 1

\* an uncaught exception ends the interpreter with status 1
Uncaught(exc) ==
  /\ raised' = exc
  /\ exit_status' = 1
  /\ pc' = "exited"

\* main line 50: program_public_input = read_json_from_stdin()
A_read_json_from_stdin ==
  /\ pc = "read_json_from_stdin"
  /\ IF stdin.json = "invalid"
       THEN /\ stdout' = Append(stdout, Text("Error: Invalid JSON input."))
            /\ Uncaught("JSONDecodeError")
            /\ UNCHANGED locals
       ELSE /\ locals' = [locals EXCEPT !.program_public_input = stdin]
            /\ pc' = "n_steps"
            /\ UNCHANGED <<stdout, raised, exit_status>>
  /\ UNCHANGED <<n_steps, degree_bound, resA, resB, stdin, template, argv_len,
                 public_input, reference, dest, dest_writable, program_file,
                 program_input_file>>

\* mutant: program_public_input.get("n_steps", 1), a default for a missing field
A_n_steps_with_default ==
  /\ pc = "n_steps"
  /\ LET doc   == locals.program_public_input
         field == IF doc.json = "object" /\ ~doc.has_n_steps
                    THEN Returned(JsonValue("int", 1))
                    ELSE subscript_n_steps(doc)
         conv  == IF field.raised = "none" THEN py_int(field.value) ELSE field
     IN  IF conv.raised # "none"
           THEN Uncaught(conv.raised) /\ UNCHANGED locals
           ELSE /\ locals' = [locals EXCEPT !.n_steps = conv.value]
                /\ pc' = "last_layer_degree_bound"
                /\ UNCHANGED <<raised, exit_status>>
  /\ UNCHANGED <<stdout, n_steps, degree_bound, resA, resB, stdin, template,
                 argv_len, public_input, reference, dest, dest_writable,
                 program_file, program_input_file>>

\* main line 51: n_steps = int(program_public_input["n_steps"])
A_n_steps ==
  /\ pc = "n_steps"
  /\ LET field == subscript_n_steps(locals.program_public_input)
         conv  == IF field.raised = "none" THEN py_int(field.value) ELSE field
     IN  IF conv.raised # "none"
           THEN Uncaught(conv.raised) /\ UNCHANGED locals
           ELSE /\ locals' = [locals EXCEPT !.n_steps = conv.value]
                /\ pc' = "last_layer_degree_bound"
                /\ UNCHANGED <<raised, exit_status>>
  /\ UNCHANGED <<stdout, n_steps, degree_bound, resA, resB, stdin, template,
                 argv_len, public_input, reference, dest, dest_writable,
                 program_file, program_input_file>>

\* main line 52: int(TEMPLATE["stark"]["fri"]["last_layer_degree_bound"])
A_last_layer_degree_bound ==
  /\ pc = "last_layer_degree_bound"
  /\ locals' = [locals EXCEPT !.last_layer_degree_bound =
                                template.stark.fri.last_layer_degree_bound]
  /\ pc' = "calculate_fri_step_list"
  /\ UNCHANGED <<stdout, exit_status, raised, n_steps, degree_bound, resA, resB,
                 stdin, template, argv_len, public_input, reference, dest,
                 dest_writable, program_file, program_input_file>>

\* main line 54: fri_step_list = calculate_fri_step_list(n_steps, bound)
A_calculate_fri_step_list ==
  /\ pc = "calculate_fri_step_list"
  /\ LET res == calculate_fri_step_list(locals.n_steps,
                                        locals.last_layer_degree_bound)
     IN  IF res.raised # "none"
           THEN Uncaught(res.raised) /\ UNCHANGED locals
           ELSE /\ locals' = [locals EXCEPT !.fri_step_list = res.value]
                /\ pc' = "update_template_and_output"
                /\ UNCHANGED <<raised, exit_status>>
  /\ UNCHANGED <<stdout, n_steps, degree_bound, resA, resB, stdin, template,
                 argv_len, public_input, reference, dest, dest_writable,
                 program_file, program_input_file>>

\* main line 55: update_template_and_output(TEMPLATE, fri_step_list); main
\* returns and the interpreter exits with status 0
A_update_template_and_output ==
  /\ pc = "update_template_and_output"
  /\ template' = update_template(template, locals.fri_step_list)
  /\ stdout' = Append(stdout, Json(template'))
  /\ exit_status' = 0
  /\ pc' = "exited"
  /\ UNCHANGED <<raised, n_steps, degree_bound, resA, resB, stdin, locals,
                 argv_len, public_input, reference, dest, dest_writable,
                 program_file, program_input_file>>

NextConfigGenerator ==
  \/ A_read_json_from_stdin
  \/ A_n_steps
  \/ A_last_layer_degree_bound
  \/ A_calculate_fri_step_list
  \/ A_update_template_and_output

SpecConfigGenerator == InitConfigGenerator /\ [][NextConfigGenerator]_vars

(***************************************************************************)
(* Properties of CLI A (checked under SpecConfigGenerator).                *)
(***************************************************************************)
Exited == pc = "exited"
LacksNSteps == stdin.json # "object" \/ ~stdin.has_n_steps

\* C6 (as stated): CLI A exits nonzero when stdin is not valid JSON or lacks
\* n_steps, and exits zero for every other input, whatever the value of n_steps.
C6_AsStated ==
  Exited => (exit_status # 0 <=> (stdin.json = "invalid" \/ LacksNSteps))

\* C6 (amended): CLI A exits zero exactly when stdin is a JSON object whose
\* n_steps converts under int() to a positive integer; it exits nonzero for
\* invalid JSON, a missing n_steps, a value int() rejects, and a value <= 0.
C6_ExitStatus ==
  Exited =>
    /\ exit_status \in {0, 1}
    /\ exit_status = 0 <=>
         /\ stdin.json = "object" /\ stdin.has_n_steps
         /\ stdin.n_steps.t \in {"int", "float", "bool", "numstr"}
         /\ stdin.n_steps.i > 0
    /\ (stdin.json = "invalid" \/ LacksNSteps) => exit_status # 0

\* a valid object with n_steps = 0: math domain error, status 1, no output
C6_Witness ==
  /\ Exited /\ stdin = Document("object", TRUE, JsonValue("int", 0))
  /\ exit_status = 1 /\ raised = "ValueError" /\ stdout = <<>>

\* C8: a successful run prints the template with only stark.fri.fri_step_list
\* replaced by the computed list; every other field at every level keeps the
\* value it has in TEMPLATE, and the bound used is the template's 128.
C8_OnlyStepListReplaced ==
  (Exited /\ exit_status = 0) =>
    /\ Len(stdout) = 1 /\ stdout[1].kind = "json"
    /\ LET out == stdout[1].doc
       IN  /\ DOMAIN out = DOMAIN TEMPLATE
           /\ \A f \in DOMAIN TEMPLATE \ {"stark"} : out[f] = TEMPLATE[f]
           /\ DOMAIN out.stark = {"fri", "log_n_cosets"}
           /\ out.stark.log_n_cosets = 3
           /\ DOMAIN out.stark.fri = DOMAIN TEMPLATE.stark.fri
           /\ out.stark.fri.last_layer_degree_bound = 128
           /\ out.stark.fri.n_queries = 16
           /\ out.stark.fri.proof_of_work_bits = 30
           /\ locals.last_layer_degree_bound = 128
           /\ out.stark.fri.fri_step_list =
                calculate_fri_step_list(locals.n_steps, 128).value

\* the end-to-end scenario {"n_steps": 1024}
C8_Witness ==
  /\ Exited /\ exit_status = 0
  /\ stdin = Document("object", TRUE, JsonValue("int", 1024))
  /\ stdout[1].doc.stark.fri.fri_step_list = <<0, 4, 3>>
  /\ stdout[1].doc.stark.fri.last_layer_degree_bound = 128

(***************************************************************************)
(* CLI B: fri_step_list.py.                                                *)
(***************************************************************************)
\* values of n_steps in the public input file (no floats: math.log of a float
\* is outside the integer model of ceil_log2)
PublicNStepsValues ==
  {JsonValue("int", k) : k \in NStepsDomain}
    \cup {JsonValue("bool", k) : k \in 0 .. 1}
    \cup {JsonValue("numstr", 1024), JsonValue("str", 0), JsonValue("null", 0)}

File(state, doc) == [state |-> state, doc |-> doc]
NoDocument == Document("none", FALSE, JsonValue("null", 0))

PublicInputFiles ==
  {File("missing", NoDocument), File("malformed", NoDocument)}
    \cup {File("json", Document(k, FALSE, JsonValue("null", 0))) :
            k \in {"array", "object"}}
    \cup {File("json", Document("object", TRUE, v)) : v \in PublicNStepsValues}

\* the reference configuration: has_fri tells whether ["stark"]["fri"] exists
Params(has_fri, list) == [has_fri |-> has_fri, fri_step_list |-> list]
NoParams == Params(FALSE, <<>>)
ReferenceFiles ==
  {File("missing", NoParams), File("malformed", NoParams),
   File("json", Params(FALSE, <<>>)), File("json", Params(TRUE, <<0, 4, 4, 3>>))}

\* the destination before the run: absent, or holding an earlier configuration
DestFiles == {File("absent", NoParams), File("old", Params(TRUE, <<4, 4>>))}

LocalsB ==
  [ program_n_steps |-> JsonValue("null", 0), fri_step_list |-> <<>>,
    cpu_air_params |-> NoParams ]

InitFriStepList ==
  /\ pc = "check_argv"
  /\ argv_len \in 1 .. 4
  /\ public_input \in PublicInputFiles
  /\ reference \in ReferenceFiles
  /\ dest \in DestFiles
  /\ dest_writable \in BOOLEAN
  /\ locals = LocalsB
  /\ ProcessStart /\ CalcUnused /\ CliAUnused /\ CliCUnused

\* open(path, 'r') followed by json.load(file)
load_json_file(file) ==
  IF file.state = "missing" THEN Raised("FileNotFoundError")
  ELSE IF file.state = "malformed" THEN Raised("JSONDecodeError")
  ELSE Returned(file.doc)

\* math.log(program_n_steps, 2) and the list built from it, lines 17-27
fri_step_list_of(v) ==
  IF v.t \in {"int", "bool"} THEN fri_step_list(v.i) ELSE Raised("TypeError")

\* lines 6-10: the argument count
B_check_argv ==
  /\ pc = "check_argv"
  /\ IF argv_len # 3
       THEN Uncaught("ValueError")
       ELSE pc' = "read_public_input" /\ UNCHANGED <<raised, exit_status>>
  /\ UNCHANGED <<stdout, n_steps, degree_bound, resA, resB, stdin, template,
                 locals, argv_len, public_input, reference, dest,
                 dest_writable, program_file, program_input_file>>

\* lines 12-14: program_n_steps = json.load(file)['n_steps']
B_read_public_input ==
  /\ pc = "read_public_input"
  /\ LET loaded == load_json_file(public_input)
         field  == IF loaded.raised = "none"
                     THEN subscript_n_steps(loaded.value) ELSE loaded
     IN  IF field.raised # "none"
           THEN Uncaught(field.raised) /\ UNCHANGED locals
           ELSE /\ locals' = [locals EXCEPT !.program_n_steps = field.value]
                /\ pc' = "print"
                /\ UNCHANGED <<raised, exit_status>>
  /\ UNCHANGED <<stdout, n_steps, degree_bound, resA, resB, stdin, template,
                 argv_len, public_input, reference, dest, dest_writable,
                 program_file, program_input_file>>

\* line 16: print(program_n_steps)
B_print ==
  /\ pc = "print"
  /\ stdout' = Append(stdout, [kind |-> "value", value |-> locals.program_n_steps])
  /\ pc' = "compute"
  /\ UNCHANGED <<exit_status, raised, n_steps, degree_bound, resA, resB, stdin,
                 template, locals, argv_len, public_input, reference, dest,
                 dest_writable, program_file, program_input_file>>

\* lines 17-27: the step list
B_compute ==
  /\ pc = "compute"
  /\ LET res == fri_step_list_of(locals.program_n_steps)
     IN  IF res.raised # "none"
           THEN Uncaught(res.raised) /\ UNCHANGED locals
           ELSE /\ locals' = [locals EXCEPT !.fri_step_list = res.value]
                /\ pc' = "read_reference"
                /\ UNCHANGED <<raised, exit_status>>
  /\ UNCHANGED <<stdout, n_steps, degree_bound, resA, resB, stdin, template,
                 argv_len, public_input, reference, dest, dest_writable,
                 program_file, program_input_file>>

\* mutant: the destination is opened for writing before the reference is read
B_read_reference_after_open ==
  /\ pc = "read_reference"
  /\ dest' = IF dest_writable THEN File("empty", NoParams) ELSE dest
  /\ LET loaded == load_json_file(reference)
     IN  IF loaded.raised # "none"
           THEN Uncaught(loaded.raised) /\ UNCHANGED locals
         ELSE IF ~loaded.value.has_fri
           THEN Uncaught("KeyError") /\ UNCHANGED locals
         ELSE /\ locals' = [locals EXCEPT !.cpu_air_params =
                              Params(TRUE, locals.fri_step_list)]
              /\ pc' = "open_dest"
              /\ UNCHANGED <<raised, exit_status>>
  /\ UNCHANGED <<stdout, n_steps, degree_bound, resA, resB, stdin, template,
                 argv_len, public_input, reference, dest_writable,
                 program_file, program_input_file>>

\* lines 29-31: load the reference configuration and set its fri_step_list
B_read_reference ==
  /\ pc = "read_reference"
  /\ LET loaded == load_json_file(reference)
     IN  IF loaded.raised # "none"
           THEN Uncaught(loaded.raised) /\ UNCHANGED locals
         ELSE IF ~loaded.value.has_fri
           THEN Uncaught("KeyError") /\ UNCHANGED locals
         ELSE /\ locals' = [locals EXCEPT !.cpu_air_params =
                              Params(TRUE, locals.fri_step_list)]
              /\ pc' = "open_dest"
              /\ UNCHANGED <<raised, exit_status>>
  /\ UNCHANGED <<stdout, n_steps, degree_bound, resA, resB, stdin, template,
                 argv_len, public_input, reference, dest, dest_writable,
                 program_file, program_input_file>>

\* line 32: open(cpu_air_params_destination_path, 'w') creates or truncates
B_open_dest ==
  /\ pc = "open_dest"
  /\ IF dest_writable
       THEN /\ dest' = File("empty", NoParams)
            /\ pc' = "dump"
            /\ UNCHANGED <<raised, exit_status>>
       ELSE Uncaught("OSError") /\ UNCHANGED dest
  /\ UNCHANGED <<stdout, n_steps, degree_bound, resA, resB, stdin, template,
                 locals, argv_len, public_input, reference, dest_writable,
                 program_file, program_input_file>>

\* line 33: json.dump(cpu_air_params, new_file, indent=4); the script ends
B_dump ==
  /\ pc = "dump"
  /\ dest' = File("written", locals.cpu_air_params)
  /\ exit_status' = 0
  /\ pc' = "exited"
  /\ UNCHANGED <<stdout, raised, n_steps, degree_bound, resA, resB, stdin,
                 template, locals, argv_len, public_input, reference,
                 dest_writable, program_file, program_input_file>>

NextFriStepList ==
  \/ B_check_argv
  \/ B_read_public_input
  \/ B_print
  \/ B_compute
  \/ B_read_reference
  \/ B_open_dest
  \/ B_dump

SpecFriStepList == InitFriStepList /\ [][NextFriStepList]_vars

(***************************************************************************)
(* Properties of CLI B (checked under SpecFriStepList).                    *)
(***************************************************************************)
DestUntouched == dest \in DestFiles

PublicInputUsable ==
  /\ public_input.state = "json"
  /\ public_input.doc.json = "object" /\ public_input.doc.has_n_steps
  /\ public_input.doc.n_steps.t \in {"int", "bool"}
  /\ public_input.doc.n_steps.i > 0

ReferenceUsable == reference.state = "json" /\ reference.doc.has_fri

\* C9: the argument check, the read of n_steps, the computation and the read of
\* the reference configuration all precede the opening of the destination: a
\* run with a wrong argument count, an unusable public input, a non-positive
\* n_steps or an unusable reference configuration fails (status 1) and never
\* creates or modifies the destination file.
C9_DestinationOpenedLast ==
  /\ (argv_len # 3 \/ ~PublicInputUsable \/ ~ReferenceUsable) =>
       /\ DestUntouched
       /\ Exited => exit_status = 1
  /\ ~DestUntouched =>
       /\ pc \in {"dump", "exited"}
       /\ Len(stdout) = 1
       /\ locals.fri_step_list = fri_step_list(public_input.doc.n_steps.i).value
       /\ locals.cpu_air_params = Params(TRUE, locals.fri_step_list)

\* the reference configuration is malformed after everything before it succeeded
C9_Witness ==
  /\ Exited /\ exit_status = 1 /\ raised = "JSONDecodeError"
  /\ argv_len = 3 /\ PublicInputUsable /\ reference.state = "malformed"
  /\ dest_writable /\ dest = File("old", Params(TRUE, <<4, 4>>))
  /\ Len(stdout) = 1

(***************************************************************************)
(* CLI C: scripts/cairo0/merge.py.                                         *)
(***************************************************************************)
\* JSON texts: an object is its sequence of members <<key, value>> as written
\* (a key may be written twice); the texts that are no objects are [] and null.
MaxMembers == 2
Keys == {"a", "b"}
Scalars == {1, 2}

JsonText(form, m) == [form |-> form, m |-> m]
ObjectTexts ==
  {JsonText("object", m) :
     m \in UNION {[1 .. k -> Keys \X Scalars] : k \in 0 .. MaxMembers}}
JsonTexts ==
  ObjectTexts \cup {JsonText("array", <<>>), JsonText("null", <<>>)}

NoText == JsonText("none", <<>>)
MergeInputFiles ==
  {File("missing", NoText), File("malformed", NoText)}
    \cup {File("json", t) : t \in JsonTexts}

\* d[key] = value on a dict kept as its items in insertion order
dict_set(d, key, value) ==
  IF \E i \in 1 .. Len(d) : d[i][1] = key
    THEN [i \in 1 .. Len(d) |-> IF d[i][1] = key THEN <<key, value>> ELSE d[i]]
    ELSE Append(d, <<key, value>>)

RECURSIVE dict_of(_, _)
\* the dict json.load builds from the members of an object, left to right
dict_of(d, members) ==
  IF members = <<>> THEN d
  ELSE dict_of(dict_set(d, Head(members)[1], Head(members)[2]), Tail(members))

\* json.load: the Python value of a JSON text
json_load(text) ==
  IF text.form = "object" THEN [form |-> "dict", m |-> dict_of(<<>>, text.m)]
  ELSE IF text.form = "array" THEN [form |-> "list", m |-> text.m]
  ELSE [form |-> "None", m |-> text.m]

\* json.dumps: the JSON text of a Python value
json_dumps(value) ==
  IF value.form = "dict" THEN JsonText("object", value.m)
  ELSE IF value.form = "list" THEN JsonText("array", value.m)
  ELSE JsonText("null", value.m)

\* mutant: the two documents are combined into one mapping when both are dicts
merged_data_combined(program_data, program_input_data) ==
  IF program_data.form = "dict" /\ program_input_data.form = "dict"
    THEN json_dumps([form |-> "dict",
                     m |-> dict_of(program_data.m, program_input_data.m)])
    ELSE JsonText("object",
                  << <<"program", json_dumps(program_data)>>,
                     <<"program_input", json_dumps(program_input_data)>> >>)

\* lines 14-20: json.dumps({"program": ..., "program_input": ...}, indent=4)
merged_data(program_data, program_input_data) ==
  JsonText("object",
           << <<"program", json_dumps(program_data)>>,
              <<"program_input", json_dumps(program_input_data)>> >>)

ErrorString(exc) == [kind |-> "text", text |-> "An error occurred", error |-> exc]

\* merge_json_files: every exception becomes the returned string
merge_json_files(pf, pif) ==
  IF pf.state = "missing" \/ pif.state = "missing"
    THEN ErrorString("FileNotFoundError")
  ELSE IF pf.state = "malformed" \/ pif.state = "malformed"
    THEN ErrorString("JSONDecodeError")
  ELSE Json(merged_data(json_load(pf.doc), json_load(pif.doc)))

InitMerge ==
  /\ pc = "parse_args"
  /\ argv_len \in 1 .. 4
  /\ program_file \in MergeInputFiles
  /\ program_input_file \in MergeInputFiles
  /\ locals = NoLocals
  /\ ProcessStart /\ CalcUnused /\ CliAUnused /\ CliBUnused

\* lines 26-30: argparse with two positional arguments; a wrong count prints
\* the usage on standard error and exits with status 2
C_parse_args ==
  /\ pc = "parse_args"
  /\ IF argv_len # 3
       THEN /\ raised' = "SystemExit"
            /\ exit_status' = 2
            /\ pc' = "exited"
       ELSE pc' = "merge" /\ UNCHANGED <<raised, exit_status>>
  /\ UNCHANGED <<stdout, n_steps, degree_bound, resA, resB, stdin, template,
                 locals, argv_len, public_input, reference, dest,
                 dest_writable, program_file, program_input_file>>

\* line 32: print(merge_json_files(...)); the script ends
C_print_merge ==
  /\ pc = "merge"
  /\ stdout' = Append(stdout, merge_json_files(program_file, program_input_file))
  /\ exit_status' = 0
  /\ pc' = "exited"
  /\ UNCHANGED <<raised, n_steps, degree_bound, resA, resB, stdin, template,
                 locals, argv_len, public_input, reference, dest,
                 dest_writable, program_file, program_input_file>>

NextMerge == C_parse_args \/ C_print_merge

SpecMerge == InitMerge /\ [][NextMerge]_vars

(***************************************************************************)
(* The three scripts and the calculators together.                         *)
(***************************************************************************)
Init == InitCalc \/ InitConfigGenerator \/ InitFriStepList \/ InitMerge

Next == NextCalc \/ NextConfigGenerator \/ NextFriStepList \/ NextMerge

Spec == Init /\ [][Next]_vars

(***************************************************************************)
(* Properties of CLI C (checked under SpecMerge).                          *)
(***************************************************************************)
BothReadable ==
  argv_len = 3 /\ program_file.state = "json" /\ program_input_file.state = "json"

TwoKeysInOrder(text) ==
  /\ text.form = "object" /\ Len(text.m) = 2
  /\ text.m[1][1] = "program" /\ text.m[2][1] = "program_input"

KeysOf(members) == {members[i][1] : i \in 1 .. Len(members)}
RepeatsKey(text) ==
  text.form = "object" /\ Cardinality(KeysOf(text.m)) < Len(text.m)

\* the last value written for key in members
LastValue(members, key) ==
  LET last == CHOOSE i \in 1 .. Len(members) :
                /\ members[i][1] = key
                /\ \A j \in (i + 1) .. Len(members) : members[j][1] # key
  IN  members[last][2]

\* out is text as json.load reads it: the same kind of value; for an object
\* each key once, in the order of first appearance, with its last value
ParsedFrom(out, text) ==
  /\ out.form = text.form
  /\ text.form # "object" => out = text
  /\ text.form = "object" =>
       /\ KeysOf(out.m) = KeysOf(text.m)
       /\ Cardinality(KeysOf(out.m)) = Len(out.m)
       /\ \A i \in 1 .. Len(out.m) : out.m[i][2] = LastValue(text.m, out.m[i][1])
       /\ \A i, j \in 1 .. Len(out.m) :
            i < j => \E a \in 1 .. Len(text.m) :
                       /\ text.m[a][1] = out.m[i][1]
                       /\ \A b \in 1 .. a : text.m[b][1] # out.m[j][1]
  /\ ~RepeatsKey(text) => out = text

C7_AsStated ==
  (Exited /\ argv_len = 3
     /\ (program_file.state # "json" \/ program_input_file.state # "json")) =>
    /\ exit_status # 0
    /\ stdout = <<>>

====
